---- MODULE Spec2Model ----
(***************************************************************************)
(* Model of the AI Image Stylizer: the App component (state, file          *)
(* selection, clear, prompt edit, generate) and the Gemini client          *)
(* editImageWithReference.                                                 *)
(*                                                                         *)
(* Representation.  A JavaScript string is a sequence of tokens; the       *)
(* separators ":", ";" and "," of a data URL are tokens of their own, and  *)
(* a fixed message text is one token.  A nullable value is Null (<<>>) or  *)
(* Some(v) (<<v>>), so that null and the empty string Some(<<>>) differ.   *)
(***************************************************************************)
EXTENDS Integers, Sequences, FiniteSets, TLC

VARIABLES
    prompt,          \* useState prompt
    referenceImage,  \* useState referenceImage: Null or Some([file, previewUrl])
    generatedImage,  \* useState generatedImage: Null or Some(string)
    isLoading,       \* useState isLoading
    error,           \* useState error: Null or Some(string)
    readers,         \* files whose FileReader.readAsDataURL has not finished
    inflight,        \* requests handed to ai.models.generateContent, not yet settled
    calls,           \* number of ai.models.generateContent calls made so far
    clientIn,        \* what the SDK call of the last settled request produced
    clientOut,       \* what editImageWithReference made of it
    staleReaders,    \* history: the reads that were pending at a clear
    lastSelected     \* history: the file accepted last since the last clear

vars == <<prompt, referenceImage, generatedImage, isLoading, error,
          readers, inflight, calls, clientIn, clientOut,
          staleReaders, lastSelected>>

history == <<staleReaders, lastSelected>>

shell == <<prompt, referenceImage, generatedImage, isLoading, error,
           readers, inflight, calls>>

----------------------------------------------------------------------------
(* Bounds *)

NumFiles == 3
MaxReaders == 2
MaxCalls == 2
MaxParts == 2
MaxCandidates == 2

----------------------------------------------------------------------------
(* Values *)

Null == <<>>
Some(x) == <<x>>

\* JavaScript truthiness of a nullable string: neither null nor "".
Truthy(o) == o # Null /\ o[1] # <<>>

Min(a, b) == IF a < b THEN a ELSE b

INITIAL_PROMPT == <<"INITIAL_PROMPT">>

Prompts == {INITIAL_PROMPT, <<>>}

MAX_FILE_SIZE == 4 * 1024 * 1024

MSG_TOO_LARGE == <<"File is too large. Please upload an image under 4MB.">>
MSG_READ_FAILED == <<"Failed to read the image file.">>
MSG_NO_REFERENCE == <<"Please upload a reference image first.">>
MSG_INVALID_URL == <<"Invalid image data URL format.">>
MSG_NO_MIME == <<"Could not determine image MIME type.">>
MSG_UNKNOWN == <<"An unknown error occurred.">>
MSG_NULL_SPLIT == <<"TypeError: Cannot read properties of null (reading 'split')">>
JPEG_PREFIX == <<"data", ":", "image/jpeg", ";", "base64", ",">>

\* The files the user can pick, and their sizes: exactly 4 MiB, one byte
\* more, one byte less, and so on.
Files == 1..NumFiles
FileSize(f) == MAX_FILE_SIZE - 1 + (f % 3)

\* What FileReader.readAsDataURL can hand back for a file that was read.
DataURLs ==
    { <<"data", ":", "image/png", ";", "base64", ",", "AAAA">>,
      <<"data", ":", "image/webp", ";", "base64", ",">>,
      <<"data", ":">>,
      <<"data", ":", "image/png", ";", "base64", ",", "AA", ",", "BB">>,
      <<"data", ":", ";", "base64", ",", "AAAA">>,
      <<"data", ":", "image/png", ",", "AAAA">> }

----------------------------------------------------------------------------
(* String helpers used by handleGenerateClick *)

\* Index of the first occurrence of token c in s at or after position i,
\* 0 when there is none.
RECURSIVE IndexFrom(_, _, _)
IndexFrom(s, c, i) ==
    IF i > Len(s) THEN 0
    ELSE IF s[i] = c THEN i
    ELSE IndexFrom(s, c, i + 1)

\* String.prototype.split(sep): the pieces between all occurrences of sep.
RECURSIVE Split(_, _)
Split(s, sep) ==
    LET k == IndexFrom(s, sep, 1)
    IN  IF k = 0 THEN <<s>>
        ELSE <<SubSeq(s, 1, k - 1)>> \o Split(SubSeq(s, k + 1, Len(s)), sep)

\* header.match(/(.*?);/): the group starts at the start of the header.
MimeTypeMatchFromStart(header) ==
    LET s == IndexFrom(header, ";", 1)
    IN  IF s = 0 THEN Null ELSE Some(SubSeq(header, 1, s - 1))

\* header.match(/:(.*?);/): Null when there is no match, else Some(group 1).
\* The match starts at the first ":" that has a ";" after it, which is the
\* first ":" of the header, and the lazy group ends at the next ";".
MimeTypeMatch(header) ==
    LET c == IndexFrom(header, ":", 1)
        s == IF c = 0 THEN 0 ELSE IndexFrom(header, ";", c + 1)
    IN  IF c = 0 \/ s = 0 THEN Null
        ELSE Some(SubSeq(header, c + 1, s - 1))

\* Lines 52-62 of handleGenerateClick: the data and MIME type to send, or
\* the message of the Error thrown before the client is called.
ParseDataUrlLenient(previewUrl) ==
    IF previewUrl = Null
    THEN [ok |-> FALSE, message |-> MSG_NULL_SPLIT, data |-> <<>>, mime |-> <<>>]
    ELSE LET parts == Split(previewUrl[1], ",")
             m == IF Len(parts) >= 1 THEN MimeTypeMatch(parts[1]) ELSE Null
         IN  IF Len(parts) < 2
             THEN [ok |-> FALSE, message |-> MSG_INVALID_URL, data |-> <<>>, mime |-> <<>>]
             ELSE IF m = Null
             THEN [ok |-> TRUE, message |-> <<>>, data |-> parts[2], mime |-> <<>>]
             ELSE [ok |-> TRUE, message |-> <<>>, data |-> parts[2], mime |-> m[1]]

ParseDataUrl(previewUrl) ==
    IF previewUrl = Null
    THEN [ok |-> FALSE, message |-> MSG_NULL_SPLIT, data |-> <<>>, mime |-> <<>>]
    ELSE LET parts == Split(previewUrl[1], ",")
             m == MimeTypeMatch(parts[1])
         IN  IF Len(parts) # 2
             THEN [ok |-> FALSE, message |-> MSG_INVALID_URL, data |-> <<>>, mime |-> <<>>]
             ELSE IF m = Null \/ m[1] = <<>>
             THEN [ok |-> FALSE, message |-> MSG_NO_MIME, data |-> <<>>, mime |-> <<>>]
             ELSE [ok |-> TRUE, message |-> <<>>, data |-> parts[2], mime |-> m[1]]

\* Line 69: the message the catch block stores for a thrown value.
CatchMessage(thrown) ==
    IF thrown.isError THEN thrown.message ELSE MSG_UNKNOWN

----------------------------------------------------------------------------
(* The Generation Client, src/services/geminiService.ts *)

GEMINI_PREFIX == <<"Gemini API Error: ">>
MSG_TEXT_OPEN == <<"API returned text instead of an image: \"">>
MSG_TEXT_CLOSE == <<"...\"">>
MSG_NO_IMAGE == <<"No image was generated in the API response. The response may have been blocked or empty.">>
MSG_UNKNOWN_API == <<"An unknown error occurred while communicating with the Gemini API.">>
TEXT_EXCERPT_LEN == 100

\* A thrown value: an Error object with a message, or something else.
ErrorObj(msg) == [isError |-> TRUE, message |-> msg]
NonError == [isError |-> FALSE, message |-> <<>>]

\* What a call returns or throws.
Returned(v) == [ok |-> TRUE, value |-> v, thrown |-> NonError]
Threw(t) == [ok |-> FALSE, value |-> <<>>, thrown |-> t]

\* Response parts, candidates and responses of the SDK.
InlinePart(d) == [inlineData |-> Some([data |-> d]), text |-> Null]
TextPart(t) == [inlineData |-> Null, text |-> Some(t)]
Candidate(ps) == [content |-> Some([parts |-> Some(ps)])]
NoContent == [content |-> Null]
NoParts == [content |-> Some([parts |-> Null])]
Response(cs, t) == [candidates |-> cs, text |-> t]

\* What ai.models.generateContent produced: a response, or a thrown value.
SdkResponse(r) == [threw |-> FALSE, response |-> r, thrown |-> NonError]
SdkThrew(t) == [threw |-> TRUE, response |-> Response(Null, Null), thrown |-> t]

\* String.prototype.substring(0, n).
Substring0Short(s, n) == SubSeq(s, 1, Min(n - 1, Len(s)))

Substring0(s, n) == SubSeq(s, 1, Min(n, Len(s)))

\* Lines 44-48: the data of the first part from position i on that has
\* inline data with a non-empty payload, Null when there is none.
RECURSIVE ScanPartsNoSkip(_, _)
ScanPartsNoSkip(parts, i) ==
    IF i > Len(parts) THEN Null
    ELSE IF parts[i].inlineData # Null /\ parts[i].inlineData[1].data # Null
    THEN parts[i].inlineData[1].data
    ELSE ScanPartsNoSkip(parts, i + 1)

RECURSIVE ScanParts(_, _)
ScanParts(parts, i) ==
    IF i > Len(parts) THEN Null
    ELSE IF parts[i].inlineData # Null /\ Truthy(parts[i].inlineData[1].data)
    THEN parts[i].inlineData[1].data
    ELSE ScanParts(parts, i + 1)

\* Lines 38-49: the payload found in the first candidate, Null when the
\* guard of line 38 fails or the loop finds nothing.
FindImage(r) ==
    IF /\ r.candidates # Null
       /\ Len(r.candidates[1]) > 0
       /\ r.candidates[1][1].content # Null
       /\ r.candidates[1][1].content[1].parts # Null
    THEN ScanParts(r.candidates[1][1].content[1].parts[1], 1)
    ELSE Null

\* The catch block rethrowing the message of whatever was thrown.
ClientCatchAnyMessage(t) == Threw(ErrorObj(t.message))

\* Lines 59-65: the catch block of editImageWithReference.
ClientCatch(t) ==
    IF t.isError
    THEN Threw(ErrorObj(GEMINI_PREFIX \o t.message))
    ELSE Threw(ErrorObj(MSG_UNKNOWN_API))

\* Lines 51-57: the fallback when no image part was found.
Fallback(r) ==
    IF Truthy(r.text)
    THEN ErrorObj(MSG_TEXT_OPEN \o Substring0(r.text[1], TEXT_EXCERPT_LEN) \o MSG_TEXT_CLOSE)
    ELSE ErrorObj(MSG_NO_IMAGE)

\* editImageWithReference, from the moment the SDK call settles.
EditImageWithReference(sdk) ==
    IF sdk.threw THEN ClientCatch(sdk.thrown)
    ELSE LET img == FindImage(sdk.response)
         IN  IF img # Null THEN Returned(img[1])
             ELSE ClientCatch(Fallback(sdk.response))

----------------------------------------------------------------------------
(* Inputs of the client: what the generation service can answer *)

PAYLOAD_1 == <<"R1">>
PAYLOAD_2 == <<"R2">>

Digits == <<"0", "1", "2", "3", "4", "5", "6", "7", "8", "9">>
TextOfLen(n) == [i \in 1..n |-> Digits[(i % 10) + 1]]

\* Texts shorter than, as long as, and longer than the excerpt.
Texts == { TextOfLen(3), TextOfLen(TEXT_EXCERPT_LEN), TextOfLen(TEXT_EXCERPT_LEN + 1) }

SeqsUpTo(S, n) == UNION { [1..k -> S] : k \in 0..n }

PartKinds ==
    { TextPart(<<"t">>), InlinePart(Some(<<>>)),
      InlinePart(Some(PAYLOAD_1)), InlinePart(Some(PAYLOAD_2)) }

CandidateShapes ==
    {NoContent, NoParts} \cup { Candidate(ps) : ps \in SeqsUpTo(PartKinds, MaxParts) }

\* Candidates after the first: without content, or with at most one part.
LaterCandidateShapes ==
    {NoContent} \cup { Candidate(ps) : ps \in SeqsUpTo(PartKinds, 1) }

CandidateLists ==
    {<<>>} \cup { <<c>> \o rest : c \in CandidateShapes,
                                  rest \in SeqsUpTo(LaterCandidateShapes, MaxCandidates - 1) }

AllResponses ==
    { Response(cs, t) :
        cs \in {Null} \cup { Some(c) : c \in CandidateLists },
        t \in {Null, Some(<<>>), Some(TextOfLen(3))} }

\* The answers the application is run against.
SdkOutcomes ==
    { SdkResponse(Response(Some(<<Candidate(<<InlinePart(Some(PAYLOAD_1))>>)>>), Null)),
      SdkResponse(Response(Some(<<Candidate(<<TextPart(<<"t">>), InlinePart(Some(<<>>)),
                                              InlinePart(Some(PAYLOAD_2))>>)>>),
                           Some(<<"t">>))),
      SdkResponse(Response(Some(<<Candidate(<<TextPart(TextOfLen(3))>>)>>),
                           Some(TextOfLen(3)))),
      SdkResponse(Response(Some(<<NoContent>>), Some(TextOfLen(TEXT_EXCERPT_LEN + 1)))),
      SdkResponse(Response(Null, Null)),
      SdkResponse(Response(Some(<<>>), Some(<<>>))),
      SdkThrew(ErrorObj(<<"quota exceeded">>)),
      SdkThrew(NonError) }

----------------------------------------------------------------------------
(* The Application Shell, src/unnamed/part_000 *)

Init ==
    /\ prompt = INITIAL_PROMPT
    /\ referenceImage = Null
    /\ generatedImage = Null
    /\ isLoading = FALSE
    /\ error = Null
    /\ readers = {}
    /\ inflight = <<>>
    /\ calls = 0
    /\ clientIn = Null
    /\ clientOut = Null
    /\ staleReaders = {}
    /\ lastSelected = Null

\* The file input is rendered only while there is no reference image
\* (lines 92-111), the clear button only while there is one.
FileInputRendered == referenceImage = Null
ClearButtonRendered == referenceImage # Null

\* Line 126: disabled={isLoading || !referenceImage}.
GenerateDisabledNoLoading == referenceImage = Null

GenerateDisabled == isLoading \/ referenceImage = Null

\* handleImageChange(event) with event.target.files[0] = f: the size check,
\* then the start of the asynchronous read.
HandleImageChangeNoLimit(f) ==
    /\ f \notin readers
    /\ Cardinality(readers) < MaxReaders
    /\ readers' = readers \cup {f}
    /\ lastSelected' = Some(f)
    /\ UNCHANGED <<prompt, referenceImage, generatedImage, isLoading, error,
                   inflight, calls, clientIn, clientOut, staleReaders>>

HandleImageChange(f) ==
    IF FileSize(f) > MAX_FILE_SIZE
    THEN /\ error' = Some(MSG_TOO_LARGE)
         /\ UNCHANGED <<prompt, referenceImage, generatedImage, isLoading,
                        readers, inflight, calls, clientIn, clientOut, history>>
    ELSE /\ f \notin readers
         /\ Cardinality(readers) < MaxReaders
         /\ readers' = readers \cup {f}
         /\ lastSelected' = Some(f)
         /\ UNCHANGED <<prompt, referenceImage, generatedImage, isLoading, error,
                        inflight, calls, clientIn, clientOut, staleReaders>>

SelectFile(f) ==
    /\ FileInputRendered
    /\ HandleImageChange(f)

\* The read of f succeeds with data URL url: the load events, of which only
\* loadend has a handler (lines 23-26).
ReadSucceeds(f, url) ==
    /\ f \in readers
    /\ readers' = readers \ {f}
    /\ referenceImage' = Some([file |-> f, previewUrl |-> Some(url)])
    /\ error' = Null
    /\ staleReaders' = staleReaders \ {f}
    /\ UNCHANGED <<prompt, generatedImage, isLoading, inflight, calls,
                   clientIn, clientOut, lastSelected>>

\* The read of f fails: FileReader fires error and then loadend in the same
\* task, with reader.result = null.  onerror (lines 27-29) sets the message,
\* onloadend (lines 23-26) then stores the image and clears the message.
ReadFails(f) ==
    LET afterOnError == Some(MSG_READ_FAILED)
        afterOnLoadEnd == Null
    IN  /\ f \in readers
        /\ readers' = readers \ {f}
        /\ referenceImage' = Some([file |-> f, previewUrl |-> Null])
        /\ error' = afterOnLoadEnd
        /\ staleReaders' = staleReaders \ {f}
        /\ UNCHANGED <<prompt, generatedImage, isLoading, inflight, calls,
                       clientIn, clientOut, lastSelected>>

\* clearReferenceImage that resets the error as well.
ClearReferenceImageAndError ==
    /\ ClearButtonRendered
    /\ referenceImage' = Null
    /\ error' = Null
    /\ staleReaders' = readers
    /\ lastSelected' = Null
    /\ UNCHANGED <<prompt, generatedImage, isLoading, readers, inflight,
                   calls, clientIn, clientOut>>

\* clearReferenceImage (lines 34-39).
ClearReferenceImage ==
    /\ ClearButtonRendered
    /\ referenceImage' = Null
    /\ staleReaders' = readers
    /\ lastSelected' = Null
    /\ UNCHANGED <<prompt, generatedImage, isLoading, error, readers, inflight,
                   calls, clientIn, clientOut>>

\* The textarea's onChange (line 118).
EditPrompt(p) ==
    /\ p # prompt
    /\ prompt' = p
    /\ UNCHANGED <<referenceImage, generatedImage, isLoading, error, readers,
                   inflight, calls, clientIn, clientOut, history>>

\* Line 64: the arguments of editImageWithReference, the prompt being the
\* one of the render the handler was created in (useCallback, line 73).
RequestOfInitialPrompt(parsed) ==
    [prompt |-> INITIAL_PROMPT, base64ImageData |-> parsed.data, mimeType |-> parsed.mime]

RequestOf(parsed) ==
    [prompt |-> prompt, base64ImageData |-> parsed.data, mimeType |-> parsed.mime]

\* Lines 42-45 of handleGenerateClick: no reference image.
MissingReferenceAfterLoading ==
    /\ error' = Some(MSG_NO_REFERENCE)
    /\ isLoading' = TRUE
    /\ UNCHANGED <<prompt, referenceImage, generatedImage,
                   readers, inflight, calls, clientIn, clientOut, history>>

MissingReference ==
    /\ error' = Some(MSG_NO_REFERENCE)
    /\ UNCHANGED <<prompt, referenceImage, generatedImage, isLoading,
                   readers, inflight, calls, clientIn, clientOut, history>>

\* handleGenerateClick up to its await (lines 42-64).  Without a reference
\* image it sets the message and returns.  A failure of the local parsing is
\* thrown inside the try, so catch and finally run in the same call and
\* isLoading is back to false when the handler returns.  Otherwise the
\* client is called with the prompt and image of this render and the
\* handler waits.
HandleGenerateClick ==
    IF referenceImage = Null
    THEN MissingReference
    ELSE LET parsed == ParseDataUrl(referenceImage[1].previewUrl)
         IN  IF parsed.ok
             THEN /\ calls < MaxCalls
                  /\ isLoading' = TRUE
                  /\ error' = Null
                  /\ generatedImage' = Null
                  /\ inflight' = Append(inflight, RequestOf(parsed))
                  /\ calls' = calls + 1
                  /\ UNCHANGED <<prompt, referenceImage, readers, clientIn, clientOut, history>>
             ELSE /\ isLoading' = FALSE
                  /\ error' = Some(CatchMessage(ErrorObj(parsed.message)))
                  /\ generatedImage' = Null
                  /\ UNCHANGED <<prompt, referenceImage, readers, inflight, calls,
                                 clientIn, clientOut, history>>

\* A click on the generate button.
ClickGenerate ==
    /\ ~GenerateDisabled
    /\ HandleGenerateClick

\* handleGenerateClick called although the button is disabled for want of a
\* reference image (the branch of lines 42-45), while no earlier invocation
\* is waiting.
InvokeGenerateWithoutImage ==
    /\ referenceImage = Null
    /\ inflight = <<>>
    /\ HandleGenerateClick

RemoveAt(s, i) == SubSeq(s, 1, i - 1) \o SubSeq(s, i + 1, Len(s))

\* Line 65: the data URL stored for a returned payload.
ResultUrlInputMime(request, payload) ==
    <<"data", ":">> \o request.mimeType \o <<";", "base64", ",">> \o payload

ResultUrl(request, payload) == JPEG_PREFIX \o payload

\* The rest of handleGenerateClick once the SDK call of the i-th waiting
\* request settles as sdk, with a client that calls the SDK again when the
\* call threw.
GenerateSettlesRetry(i, sdk) ==
    LET result == EditImageWithReference(sdk)
    IN  /\ i \in 1..Len(inflight)
        /\ IF sdk.threw /\ calls < MaxCalls
           THEN /\ calls' = calls + 1
                /\ UNCHANGED <<prompt, referenceImage, generatedImage, isLoading, error,
                               readers, inflight, clientIn, clientOut, history>>
           ELSE /\ inflight' = RemoveAt(inflight, i)
                /\ clientIn' = Some(sdk)
                /\ clientOut' = Some(result)
                /\ IF result.ok
                   THEN /\ generatedImage' = Some(ResultUrl(inflight[i], result.value))
                        /\ UNCHANGED error
                   ELSE /\ error' = Some(CatchMessage(result.thrown))
                        /\ UNCHANGED generatedImage
                /\ isLoading' = FALSE
                /\ UNCHANGED <<prompt, referenceImage, readers, calls, history>>

\* The rest of handleGenerateClick (lines 64-72) once the SDK call of the
\* i-th waiting request settles as sdk, without the finally block.
GenerateSettlesNoFinally(i, sdk) ==
    LET result == EditImageWithReference(sdk)
    IN  /\ i \in 1..Len(inflight)
        /\ inflight' = RemoveAt(inflight, i)
        /\ clientIn' = Some(sdk)
        /\ clientOut' = Some(result)
        /\ IF result.ok
           THEN /\ generatedImage' = Some(ResultUrl(inflight[i], result.value))
                /\ isLoading' = FALSE
                /\ UNCHANGED error
           ELSE /\ error' = Some(CatchMessage(result.thrown))
                /\ UNCHANGED <<generatedImage, isLoading>>
        /\ UNCHANGED <<prompt, referenceImage, readers, calls, history>>

\* The rest of handleGenerateClick (lines 64-72) once the SDK call of the
\* i-th waiting request settles as sdk.
GenerateSettles(i, sdk) ==
    LET result == EditImageWithReference(sdk)
    IN  /\ i \in 1..Len(inflight)
        /\ inflight' = RemoveAt(inflight, i)
        /\ clientIn' = Some(sdk)
        /\ clientOut' = Some(result)
        /\ IF result.ok
           THEN /\ generatedImage' = Some(ResultUrl(inflight[i], result.value))
                /\ UNCHANGED error
           ELSE /\ error' = Some(CatchMessage(result.thrown))
                /\ UNCHANGED generatedImage
        /\ isLoading' = FALSE
        /\ UNCHANGED <<prompt, referenceImage, readers, calls, history>>

Next ==
    \/ \E f \in Files : SelectFile(f)
    \/ \E f \in Files, url \in DataURLs : ReadSucceeds(f, url)
    \/ \E f \in Files : ReadFails(f)
    \/ ClearReferenceImage
    \/ \E p \in Prompts : EditPrompt(p)
    \/ ClickGenerate
    \/ \E i \in 1..MaxCalls, sdk \in SdkOutcomes : GenerateSettles(i, sdk)

Spec == Init /\ [][Next]_vars

\* The application with handleGenerateClick also callable without an image.
NextDirect ==
    \/ Next
    \/ InvokeGenerateWithoutImage

SpecDirect == Init /\ [][NextDirect]_vars

\* The application with a generation service that answers every request in
\* the end, by a response or by a failure.
SettleSome == \E i \in 1..MaxCalls, sdk \in SdkOutcomes : GenerateSettles(i, sdk)

SpecFair == Init /\ [][Next]_vars /\ WF_vars(SettleSome)

\* editImageWithReference alone, applied to every answer within the bounds.
InitClient ==
    /\ prompt = INITIAL_PROMPT
    /\ referenceImage = Null
    /\ generatedImage = Null
    /\ isLoading = FALSE
    /\ error = Null
    /\ readers = {}
    /\ inflight = <<>>
    /\ calls = 0
    /\ clientIn \in { Some(SdkResponse(r)) : r \in AllResponses }
    /\ clientOut = Null
    /\ staleReaders = {}
    /\ lastSelected = Null

ApplyClient ==
    /\ clientOut = Null
    /\ clientOut' = Some(EditImageWithReference(clientIn[1]))
    /\ UNCHANGED <<shell, clientIn, history>>

NextClient == ApplyClient

SpecClient == InitClient /\ [][NextClient]_vars

----------------------------------------------------------------------------
(* The output panel, lines 150-173: which of the four views is rendered *)

LoadingView == isLoading
ErrorView == Truthy(error)
ResultView == ~isLoading /\ ~Truthy(error) /\ Truthy(generatedImage)
PlaceholderView == ~isLoading /\ ~Truthy(error) /\ ~Truthy(generatedImage)

ViewsRendered ==
    (IF LoadingView THEN 1 ELSE 0) + (IF ErrorView THEN 1 ELSE 0)
    + (IF ResultView THEN 1 ELSE 0) + (IF PlaceholderView THEN 1 ELSE 0)

----------------------------------------------------------------------------
(* Vocabulary of the properties *)

\* sub occurs in s as a contiguous piece.
Contains(s, sub) ==
    \E k \in 0..(Len(s) - Len(sub)) : SubSeq(s, k + 1, k + Len(sub)) = sub

\* A step in which a waiting generate invocation completes, and one in
\* which an invocation starts to wait.
SettleStep == Len(inflight') < Len(inflight)
RequestStep == Len(inflight') > Len(inflight)

----------------------------------------------------------------------------
(* C1..C3: the error, the result and the four views *)

\* C1: the Error and the Generated Result are never both non-empty.
C1_ErrorExcludesResult == ~(Truthy(error) /\ Truthy(generatedImage))

\* C2: exactly one of the four result views is rendered, and while
\* isLoading is true the error view is not, even if an error is set.
C2_ExactlyOneView ==
    /\ ViewsRendered = 1
    /\ (isLoading => ~ErrorView)

\* C3: when the read of a selected file fails, afterwards the Error holds
\* the read-failure message and the Reference Image is what it was before.
C3_ReadFailureKeepsImage ==
    [][\A f \in Files :
          ReadFails(f) =>
              /\ error' = Some(MSG_READ_FAILED)
              /\ referenceImage' = referenceImage]_vars

----------------------------------------------------------------------------
(* C4..C6: the loading flag and the generate trigger *)

\* C4: isLoading is true exactly while a generate invocation that passed
\* the reference-image precondition is waiting for the client; it is false
\* in the state in which the invocation completes, whether it succeeded,
\* the client failed or the local parsing failed; no other step changes it.
C4_LoadingSpansGenerate ==
    /\ [](isLoading <=> inflight # <<>>)
    /\ [][/\ (RequestStep => isLoading')
          /\ (SettleStep => ~isLoading')
          /\ (ClickGenerate /\ ~RequestStep => ~isLoading')
          /\ (isLoading' # isLoading => RequestStep \/ SettleStep)]_vars

\* A second invocation is waiting after a first one failed.
C4_Witness ==
    /\ isLoading
    /\ inflight # <<>>
    /\ clientOut # Null
    /\ ~clientOut[1].ok

\* C5: through the user interface at most one generate invocation, and so
\* at most one request of the Generation Client, is in flight at any time.
C5_AtMostOneInFlight == Len(inflight) <= 1

\* A second request is in flight after the first one has completed.
C5_Witness ==
    /\ Len(inflight) = 1
    /\ calls = 2
    /\ GenerateDisabled

----------------------------------------------------------------------------
(* C7: the size limit of file selection *)

\* C7: selecting a file of more than 4 MiB sets an error and starts no
\* read, no such file is ever being read or stored as the Reference Image,
\* and a file of exactly 4 MiB is accepted for reading.
C7_SizeLimit ==
    /\ [](/\ \A f \in readers : FileSize(f) <= 4 * 1024 * 1024
          /\ referenceImage # Null => FileSize(referenceImage[1].file) <= 4 * 1024 * 1024)
    /\ [][\A f \in Files :
            SelectFile(f) =>
                /\ FileSize(f) > 4 * 1024 * 1024 =>
                      /\ Truthy(error')
                      /\ readers' = readers
                      /\ referenceImage' = referenceImage
                /\ FileSize(f) = 4 * 1024 * 1024 => f \in readers']_vars

\* An oversized file was rejected while a file of exactly 4 MiB is read.
C7_Witness ==
    /\ error = Some(MSG_TOO_LARGE)
    /\ \E f \in readers : FileSize(f) = 4 * 1024 * 1024

----------------------------------------------------------------------------
(* C8, C9: the answers of the generation service *)

CandidatesOf(r) == IF r.candidates = Null THEN <<>> ELSE r.candidates[1]

PartsOf(c) ==
    IF c.content # Null /\ c.content[1].parts # Null
    THEN c.content[1].parts[1]
    ELSE <<>>

\* p is an inline-data part with a non-empty payload.
IsImagePart(p) ==
    /\ p.inlineData # Null
    /\ p.inlineData[1].data # Null
    /\ p.inlineData[1].data[1] # <<>>

ImagePartIndexes(c) == { i \in 1..Len(PartsOf(c)) : IsImagePart(PartsOf(c)[i]) }

\* The answer has an image part in some candidate, in its first candidate.
SomeCandidateHasImage(r) ==
    \E k \in 1..Len(CandidatesOf(r)) : ImagePartIndexes(CandidatesOf(r)[k]) # {}
FirstCandidateHasImage(r) ==
    /\ Len(CandidatesOf(r)) > 0
    /\ ImagePartIndexes(CandidatesOf(r)[1]) # {}

\* The payload of the image part of c that no image part precedes.
FirstImagePayload(c) ==
    LET i == CHOOSE i \in ImagePartIndexes(c) : \A j \in ImagePartIndexes(c) : i <= j
    IN  PartsOf(c)[i].inlineData[1].data[1]

\* C8 as stated: editImageWithReference succeeds whenever some candidate of
\* the response has an inline-data part with a non-empty payload.
C8_AnyCandidateSucceeds ==
    (clientOut # Null /\ ~clientIn[1].threw
        /\ SomeCandidateHasImage(clientIn[1].response))
    => clientOut[1].ok

\* C8, amended: editImageWithReference succeeds whenever the first
\* candidate of the response has an inline-data part with a non-empty
\* payload, and returns the payload of the first such part of that
\* candidate, in the order of the parts.
C8_FirstCandidateImage ==
    (clientOut # Null /\ ~clientIn[1].threw
        /\ FirstCandidateHasImage(clientIn[1].response))
    => /\ clientOut[1].ok
       /\ clientOut[1].value = FirstImagePayload(CandidatesOf(clientIn[1].response)[1])

\* The second payload was returned after a part with an empty payload was
\* skipped.
C8_Witness ==
    /\ clientOut # Null
    /\ ~clientIn[1].threw
    /\ FirstCandidateHasImage(clientIn[1].response)
    /\ PartsOf(CandidatesOf(clientIn[1].response)[1])[1] = InlinePart(Some(<<>>))
    /\ clientOut[1].ok
    /\ clientOut[1].value = PAYLOAD_2

\* The first 100 characters of a text, the whole text when it is shorter.
Excerpt(t) == IF Len(t) <= 100 THEN t ELSE [i \in 1..100 |-> t[i]]

\* C9: when the response of a generate invocation has no inline-data part
\* with a non-empty payload, the invocation fails; with textual content the
\* Error it leaves contains the first 100 characters of the text, without
\* any it is the empty/blocked-response message and not the text one.
C9_TextOrEmptyError ==
    [][(SettleStep /\ ~clientIn'[1].threw
          /\ ~SomeCandidateHasImage(clientIn'[1].response))
       => LET t == clientIn'[1].response.text
          IN  /\ ~clientOut'[1].ok
              /\ generatedImage' = generatedImage
              /\ Truthy(error')
              /\ Truthy(t) =>
                    /\ Contains(error'[1], Excerpt(t[1]))
                    /\ Contains(error'[1], MSG_TEXT_OPEN)
              /\ ~Truthy(t) =>
                    /\ Contains(error'[1], MSG_NO_IMAGE)
                    /\ ~Contains(error'[1], MSG_TEXT_OPEN)]_vars

\* The Error holds the first 100 characters of a text of 101.
C9_Witness ==
    /\ clientIn # Null
    /\ ~clientIn[1].threw
    /\ Truthy(clientIn[1].response.text)
    /\ Len(clientIn[1].response.text[1]) > 100
    /\ Truthy(error)
    /\ Contains(error[1], Excerpt(clientIn[1].response.text[1]))
    /\ ~Contains(error[1], clientIn[1].response.text[1])

----------------------------------------------------------------------------
(* C10: the local validation of the stored data URL *)

Commas(u) == { i \in 1..Len(u) : u[i] = "," }

\* The header of a data URL with one comma: what precedes the comma.
HeaderOf(u) == SubSeq(u, 1, (CHOOSE i \in Commas(u) : TRUE) - 1)

\* A MIME type can be extracted from header h: its first ":" is followed,
\* after at least one character, by a ";" with no ";" in between.
HasMimeType(h) ==
    \E c \in 1..Len(h), s \in 1..Len(h) :
        /\ h[c] = ":" /\ \A k \in 1..(c - 1) : h[k] # ":"
        /\ h[s] = ";" /\ s > c + 1
        /\ \A k \in (c + 1)..(s - 1) : h[k] # ";"

\* C10: a click on generate with a stored data URL that has not exactly one
\* comma, or whose header yields no MIME type, fails with the matching
\* local error, calls the Generation Client zero times and ends with
\* isLoading false.
C10_LocalValidation ==
    [][(ClickGenerate /\ referenceImage[1].previewUrl # Null)
       => LET u == referenceImage[1].previewUrl[1]
          IN  /\ Cardinality(Commas(u)) # 1 =>
                    /\ error' = Some(MSG_INVALID_URL)
                    /\ calls' = calls /\ inflight' = inflight
                    /\ ~isLoading'
              /\ (Cardinality(Commas(u)) = 1 /\ ~HasMimeType(HeaderOf(u))) =>
                    /\ error' = Some(MSG_NO_MIME)
                    /\ calls' = calls /\ inflight' = inflight
                    /\ ~isLoading']_vars

\* The invalid-format error for a stored data URL without a comma.
C10_Witness ==
    /\ error = Some(MSG_INVALID_URL)
    /\ referenceImage # Null
    /\ referenceImage[1].previewUrl # Null
    /\ Commas(referenceImage[1].previewUrl[1]) = {}
    /\ ~isLoading
    /\ calls = 0

----------------------------------------------------------------------------
(* C11..C14: what generate sends and what it stores *)

\* A data URL of the form data:<mime>;base64,<payload>, for the MIME types
\* of the file input and base64 payloads (which hold no separator).
WellFormedUrl(m, p) == <<"data", ":">> \o m \o <<";", "base64", ",">> \o p
MimeTypes == { <<"image/png">>, <<"image/jpeg">>, <<"image/webp">> }
Payloads == { <<>>, <<"AAAA">> }

\* C11: whenever the Generation Client returns a payload, the Generated
\* Result stored is data:image/jpeg;base64, followed by that payload,
\* whatever the MIME type of the Reference Image sent.
C11_ResultIsJpegUrl ==
    [][(SettleStep /\ clientOut'[1].ok)
       => generatedImage' =
            Some(<<"data", ":", "image/jpeg", ";", "base64", ",">> \o clientOut'[1].value)]_vars

\* A JPEG-typed result is stored while the reference image is a PNG.
C11_Witness ==
    /\ generatedImage = Some(<<"data", ":", "image/jpeg", ";", "base64", ",">> \o PAYLOAD_2)
    /\ referenceImage # Null
    /\ referenceImage[1].previewUrl = Some(WellFormedUrl(<<"image/png">>, <<"AAAA">>))
    /\ clientOut # Null
    /\ clientOut[1].ok

\* C12: an invocation of editImageWithReference makes exactly one call of
\* the generation service, when it starts; its completion, whatever the
\* outcome, makes none, and nothing else calls the service.
C12_OneCallPerInvocation ==
    [][/\ (RequestStep => calls' = calls + 1 /\ Len(inflight') = Len(inflight) + 1)
       /\ (SettleStep => calls' = calls /\ Len(inflight') = Len(inflight) - 1)
       /\ (calls' # calls => RequestStep)
       /\ (clientOut' # clientOut => SettleStep)]_vars

\* Two invocations made two calls, the second of which threw.
C12_Witness ==
    /\ calls = 2
    /\ inflight = <<>>
    /\ clientIn # Null
    /\ clientIn[1].threw
    /\ ~clientOut[1].ok

\* C13: a click on generate with a stored data URL data:<mime>;base64,<payload>
\* passes exactly <mime> and exactly <payload> to the Generation Client.
C13_MimeAndPayloadPassed ==
    [][\A m \in MimeTypes, p \in Payloads :
          (ClickGenerate /\ referenceImage[1].previewUrl = Some(WellFormedUrl(m, p)))
          => /\ RequestStep
             /\ inflight'[Len(inflight')].mimeType = m
             /\ inflight'[Len(inflight')].base64ImageData = p]_vars

\* The request for data:image/png;base64,AAAA is in flight.
C13_Witness ==
    /\ referenceImage # Null
    /\ referenceImage[1].previewUrl = Some(<<"data", ":", "image/png", ";", "base64", ",", "AAAA">>)
    /\ inflight # <<>>
    /\ inflight[1].mimeType = <<"image/png">>
    /\ inflight[1].base64ImageData = <<"AAAA">>

\* C14: when a generate invocation that passed the precondition fails, in
\* the local parsing or in the Generation Client, with an Error object or
\* with anything else thrown, the state in which it completes has a
\* non-empty Error and no Generated Result.
C14_FailureSetsError ==
    [][/\ (SettleStep /\ ~clientOut'[1].ok)
            => Truthy(error') /\ generatedImage' = Null
       /\ (ClickGenerate /\ ~RequestStep)
            => Truthy(error') /\ generatedImage' = Null /\ ~isLoading']_vars

\* The SDK threw something that is no Error object, and the Error is set.
C14_Witness ==
    /\ clientIn # Null
    /\ clientIn[1].threw
    /\ ~clientIn[1].thrown.isError
    /\ Truthy(error)
    /\ generatedImage = Null
    /\ ~isLoading

----------------------------------------------------------------------------
(* C15..C18: successive generate attempts *)

\* C15: every new generate attempt, the one that aborts for want of a
\* Reference Image included, leaves no Generated Result of an earlier
\* attempt stored.
C15_AttemptClearsResult ==
    [][(ClickGenerate \/ InvokeGenerateWithoutImage) => generatedImage' = Null]_vars

\* A read that was pending finishes in this step.
ReadCompletes == readers' # readers /\ readers' \subseteq readers

\* C16: a set Error becomes unset only in a step that starts a generate
\* request or that completes the read of a selected file; editing the
\* prompt, clearing the reference image and the completion of a generate
\* invocation never unset it.
C16_ErrorClearedOnlyByNewAttempt ==
    [][/\ (Truthy(error) /\ ~Truthy(error')) => (RequestStep \/ ReadCompletes)
       /\ (prompt' # prompt \/ ClearReferenceImage \/ SettleStep)
            => (Truthy(error) => Truthy(error'))]_vars

\* The error of a failed attempt is gone while the next attempt waits.
C16_Witness ==
    /\ error = Null
    /\ isLoading
    /\ calls = 2
    /\ clientOut # Null
    /\ ~clientOut[1].ok
    /\ readers = {}

\* C17: with a service that answers in the end, every generate invocation
\* that set isLoading completes and isLoading becomes false again; no
\* selection, clear or prompt edit removes the waiting request.
C17_LoadingEnds ==
    /\ (isLoading ~> ~isLoading)
    /\ [][((\E f \in Files : SelectFile(f)) \/ ClearReferenceImage
             \/ (\E p \in Prompts : EditPrompt(p)))
          => (inflight' = inflight /\ isLoading' = isLoading)]_vars

\* A request has completed and the trigger is enabled again.
C17_Witness ==
    /\ ~isLoading
    /\ clientOut # Null
    /\ referenceImage # Null
    /\ ~GenerateDisabled
    /\ calls > 0

\* C18: the request of a generate invocation carries the Prompt and the
\* Reference Image of the state it was triggered in; no later step alters a
\* waiting request, and a returned payload is stored whatever the Prompt
\* and the Reference Image have become.
C18_RequestSnapshot ==
    [][/\ RequestStep =>
            LET r == inflight'[Len(inflight')]
                u == referenceImage[1].previewUrl[1]
            IN  /\ SubSeq(inflight', 1, Len(inflight)) = inflight
                /\ r.prompt = prompt
                /\ Cardinality(Commas(u)) = 1
                /\ r.base64ImageData = SubSeq(u, Len(HeaderOf(u)) + 2, Len(u))
                /\ Contains(HeaderOf(u), <<":">> \o r.mimeType \o <<";">>)
       /\ (~RequestStep /\ ~SettleStep) => inflight' = inflight
       /\ (SettleStep /\ clientOut'[1].ok) =>
            /\ Truthy(generatedImage')
            /\ Contains(generatedImage'[1], clientOut'[1].value)]_vars

\* A second request waits with the prompt it was triggered with, after the
\* prompt was edited and the reference image cleared.
C18_Witness ==
    /\ inflight # <<>>
    /\ inflight[1].prompt # prompt
    /\ referenceImage = Null
    /\ calls = 2

----------------------------------------------------------------------------
(* C19, C20: reads that finish late *)

\* C19: the completion of a read that was started before a clear does not
\* change the Reference Image.
C19_StaleReadIgnored ==
    [][\A f \in staleReaders : f \notin readers' => referenceImage' = referenceImage]_vars

\* C20: once all reads of the files selected since the last clear have
\* completed, the Reference Image is the file selected last.
C20_LastSelectedWins ==
    (readers = {} /\ lastSelected # Null)
    => (referenceImage # Null /\ referenceImage[1].file = lastSelected[1])

====
